---- MODULE Spec2Model ----
(***************************************************************************)
(* serde-cs: the comma separated list wrappers CS<T> (src/src/vec.rs) and  *)
(* CS<T, N> (src/src/array.rs).                                            *)
(*                                                                         *)
(* A text (&str / String) is a sequence of one-character strings.  The     *)
(* element type T is instantiated with u32 (the element type of the        *)
(* crate's tests) and with String (T: FromStr + Display, not Copy).        *)
(***************************************************************************)
EXTENDS Integers, Sequences, FiniteSets, TLC

VARIABLES
    val,    \* the value the caller holds: a text, a wrapper, a Result::Err, a wire primitive
    hist,   \* the calls made so far: <<[op, ty, n, arg]>>, arg the value the call consumed
    calls   \* the tokens handed to T::from_str by the last call, in call order

vars == <<val, hist, calls>>

---------------------------------------------------------------------------
(* Bounds of the model *)

MaxLen == 4       \* longest enumerated input text
MaxN == 2         \* largest array length N enumerated
MaxVecLen == 2    \* longest enumerated wrapper value
MaxElem == 10     \* largest enumerated u32 element
MaxSteps == 3     \* longest chain of calls on one value

\* the characters of the enumerated input texts
Chars == {",", "0", "1", "a"}

BoundedSeq(S, n) == UNION {[1..k -> S] : k \in 0..n}

---------------------------------------------------------------------------
(* The element type T *)

Types == {"u32", "String"}

\* T: Copy + Default, the bound of impl FromStr / Default for CS<T, N>
CopyTypes == {"u32"}

DigitChars == <<"0", "1", "2", "3", "4", "5", "6", "7", "8", "9">>

IsDigit(c) == \E d \in 1..10 : DigitChars[d] = c

DigitVal(c) == (CHOOSE d \in 1..10 : DigitChars[d] = c) - 1

\* u32::MAX = 4294967295 = 10 * U32_MAX_DIV10 + U32_MAX_MOD10
U32_MAX_DIV10 == 429496729

U32_MAX_MOD10 == 5

\* acc.checked_mul(10).and_then(|a| a.checked_add(d)) is None
Overflows(acc, d) ==
    \/ acc > U32_MAX_DIV10
    \/ acc = U32_MAX_DIV10 /\ d > U32_MAX_MOD10

TOk(v) == [ok |-> TRUE, val |-> v, err |-> "none"]

TErr(e) == [ok |-> FALSE, val |-> 0, err |-> e]

\* the digit loop of u32::from_str: checked_mul(10), checked_add(digit)
RECURSIVE u32_digits(_, _, _)
u32_digits(tok, i, acc) ==
    IF i > Len(tok) THEN TOk(acc)
    ELSE IF ~IsDigit(tok[i]) THEN TErr("InvalidDigit")
    ELSE IF Overflows(acc, DigitVal(tok[i])) THEN TErr("PosOverflow")
    ELSE u32_digits(tok, i + 1, acc * 10 + DigitVal(tok[i]))

\* <u32 as FromStr>::from_str: an optional leading '+', then decimal digits
u32_from_str(tok) ==
    IF Len(tok) = 0 THEN TErr("Empty")
    ELSE IF Len(tok) = 1 /\ tok[1] \in {"+", "-"} THEN TErr("InvalidDigit")
    ELSE IF tok[1] = "+" THEN u32_digits(Tail(tok), 1, 0)
    ELSE u32_digits(tok, 1, 0)

\* <u32 as Display>::fmt: decimal, no sign, no leading zeros
RECURSIVE u32_fmt(_)
u32_fmt(x) ==
    IF x < 10 THEN <<DigitChars[x + 1]>>
    ELSE Append(u32_fmt(x \div 10), DigitChars[(x % 10) + 1])

\* T::from_str
T_from_str(ty, tok) == IF ty = "u32" THEN u32_from_str(tok) ELSE TOk(tok)

\* <T as fmt::Display>::fmt
T_fmt(ty, x) == IF ty = "u32" THEN u32_fmt(x) ELSE x

\* T::default()
T_default(ty) == IF ty = "u32" THEN 0 ELSE <<>>

\* <T::Err as fmt::Display>::fmt
T_Err_fmt(e) ==
    CASE e = "Empty" -> "cannot parse integer from empty string"
      [] e = "InvalidDigit" -> "invalid digit found in string"
      [] e = "PosOverflow" -> "number too large to fit in target type"
      [] OTHER -> ""

---------------------------------------------------------------------------
(* Values *)

Mk(kind, ty, prim, text, items, err, msg) ==
    [kind |-> kind, ty |-> ty, prim |-> prim, text |-> text, items |-> items,
     err |-> err, msg |-> msg]

\* a &str / String
Str(s) == Mk("str", "-", "-", s, <<>>, "none", "")

\* CS<T>(items)
Vec(ty, items) == Mk("vec", ty, "-", <<>>, items, "none", "")

\* CS<T, N>(items), N = Len(items)
Arr(ty, items) == Mk("arr", ty, "-", <<>>, items, "none", "")

\* Result::Err(e), e: T::Err, of from_str
ParseErr(ty, e) == Mk("parse_err", ty, "-", <<>>, <<>>, e, "")

\* a primitive of the serialization framework's data model, on the wire
Wire(prim, text, items) == Mk("wire", "-", prim, text, items, "none", "")

\* Result::Err(e), e: D::Error, of deserialize; prim is the kind that was presented
DeErr(ty, prim, e, msg) == Mk("de_err", ty, prim, <<>>, <<>>, e, msg)

\* the outcome of a call, with the tokens it handed to T::from_str
Out(v, cs) == [val |-> v, calls |-> cs]

---------------------------------------------------------------------------
(* CS<T>: src/src/vec.rs *)

\* str::split(','): the pieces between commas, empty ones included
RECURSIVE split(_, _, _)
split(s, i, cur) ==
    IF i > Len(s) THEN <<cur>>
    ELSE IF s[i] = "," THEN <<cur>> \o split(s, i + 1, <<>>)
    ELSE split(s, i + 1, Append(cur, s[i]))

\* filter, were the empty pieces kept
filter_keeps_empty(toks) == toks

\* .filter(|s| !s.is_empty())
filter(toks) == SelectSeq(toks, LAMBDA t : Len(t) # 0)

ROk(items, cs) == [ok |-> TRUE, items |-> items, err |-> "none", calls |-> cs]

RErr(e, cs) == [ok |-> FALSE, items |-> <<>>, err |-> e, calls |-> cs]

\* collect, were the rejected tokens skipped: .filter_map(|s| s.parse().ok()).collect()
RECURSIVE collect_skips_err(_, _, _, _, _)
collect_skips_err(ty, toks, i, acc, cs) ==
    IF i > Len(toks) THEN ROk(acc, cs)
    ELSE LET r == T_from_str(ty, toks[i])
         IN  collect_skips_err(ty, toks, i + 1,
                               IF r.ok THEN Append(acc, r.val) ELSE acc,
                               Append(cs, toks[i]))

\* .map(T::from_str).collect::<Result<Vec<_>, _>>(): stops at the first Err
RECURSIVE collect(_, _, _, _, _)
collect(ty, toks, i, acc, cs) ==
    IF i > Len(toks) THEN ROk(acc, cs)
    ELSE LET r == T_from_str(ty, toks[i])
         IN  IF r.ok
             THEN collect(ty, toks, i + 1, Append(acc, r.val), Append(cs, toks[i]))
             ELSE RErr(r.err, Append(cs, toks[i]))

\* impl FromStr for CS<T>
CS_from_str(ty, s) == collect(ty, filter(split(s, 1, <<>>)), 1, <<>>, <<>>)

\* impl Display for CS<T>: the first element, then ",{}" for each other one
RECURSIVE fmt_rest(_, _, _)
fmt_rest(ty, items, i) ==
    IF i > Len(items) THEN <<>>
    ELSE <<",">> \o T_fmt(ty, items[i]) \o fmt_rest(ty, items, i + 1)

\* CS_fmt, were the comma left out of the "{}" of the loop
RECURSIVE CS_fmt_no_comma(_, _)
CS_fmt_no_comma(ty, items) ==
    IF Len(items) = 0 THEN <<>>
    ELSE T_fmt(ty, Head(items)) \o CS_fmt_no_comma(ty, Tail(items))

CS_fmt(ty, items) ==
    IF Len(items) = 0 THEN <<>>
    ELSE T_fmt(ty, items[1]) \o fmt_rest(ty, items, 2)

\* CS<T>::into_inner
into_inner(w) == w.items

\* Serializer::serialize_str
serialize_str(s) == Wire("str", s, <<>>)

\* CS_serialize, were the elements emitted as a sequence: serializer.collect_seq(&self.0)
CS_serialize_seq(ty, items) == Wire("seq", <<>>, items)

\* impl Serialize for CS<T>
CS_serialize(ty, items) == serialize_str(CS_fmt(ty, items))

\* CsVisitor::expecting (vec.rs)
CS_expecting == "comma separeted list"

\* de::Error::custom(e): the error's Display text
custom(ty, e) == DeErr(ty, "str", "custom", T_Err_fmt(e))

\* de::Error::invalid_type(unexpected, &visitor): what every Visitor method returns
\* by default
invalid_type(ty, prim, exp) == DeErr(ty, prim, "invalid_type", exp)

\* CS_visit_str, were a parse failure reported as a type mismatch
CS_visit_str_mismatch(ty, s) ==
    LET r == CS_from_str(ty, s)
    IN  IF r.ok THEN Out(Vec(ty, r.items), r.calls)
        ELSE Out(invalid_type(ty, "str", CS_expecting), r.calls)

\* CsVisitor::visit_str (vec.rs): values.parse().map_err(de::Error::custom)
CS_visit_str(ty, s) ==
    LET r == CS_from_str(ty, s)
    IN  IF r.ok THEN Out(Vec(ty, r.items), r.calls) ELSE Out(custom(ty, r.err), r.calls)

\* CsVisitor (vec.rs): visit_str is the only method it overrides
CS_visit(ty, w) ==
    IF w.prim = "str" THEN CS_visit_str(ty, w.text)
    ELSE Out(invalid_type(ty, w.prim, CS_expecting), <<>>)

\* impl Deserialize for CS<T>: deserializer.deserialize_str(CsVisitor(PhantomData))
CS_deserialize(ty, w) == CS_visit(ty, w)

---------------------------------------------------------------------------
(* CS<T, N>: src/src/array.rs *)

\* impl Default for CS<T, N>: [T::default(); N]
CSN_default(ty, n) == [i \in 1..n |-> T_default(ty)]

\* zip_loop, were a slot with no token left parsed from the empty text
RECURSIVE zip_loop_strict(_, _, _, _, _)
zip_loop_strict(ty, arr, toks, i, cs) ==
    IF i > Len(arr) THEN ROk(arr, cs)
    ELSE LET tok == IF i > Len(toks) THEN <<>> ELSE toks[i]
             r == T_from_str(ty, tok)
         IN  IF r.ok
             THEN zip_loop_strict(ty, [arr EXCEPT ![i] = r.val], toks, i + 1, Append(cs, tok))
             ELSE RErr(r.err, Append(cs, tok))

\* for (entry, s) in it_mut.zip(split) { *entry = s.parse()?; }
\* zip asks the slots first: with no slot left it takes no further token
RECURSIVE zip_loop(_, _, _, _, _)
zip_loop(ty, arr, toks, i, cs) ==
    IF i > Len(arr) THEN ROk(arr, cs)
    ELSE IF i > Len(toks) THEN ROk(arr, cs)
    ELSE LET r == T_from_str(ty, toks[i])
         IN  IF r.ok
             THEN zip_loop(ty, [arr EXCEPT ![i] = r.val], toks, i + 1, Append(cs, toks[i]))
             ELSE RErr(r.err, Append(cs, toks[i]))

\* CSN_from_str, were every token parsed before the first N are kept
CSN_from_str_parses_all(ty, n, s) ==
    LET r == collect(ty, filter(split(s, 1, <<>>)), 1, <<>>, <<>>)
    IN  IF r.ok
        THEN ROk([i \in 1..n |-> IF i <= Len(r.items) THEN r.items[i] ELSE T_default(ty)],
                 r.calls)
        ELSE r

\* impl FromStr for CS<T, N>
CSN_from_str(ty, n, s) == zip_loop(ty, CSN_default(ty, n), filter(split(s, 1, <<>>)), 1, <<>>)

\* impl Display for CS<T, N>: the first element, then ",{}" for each other one
RECURSIVE CSN_fmt_rest(_, _, _)
CSN_fmt_rest(ty, items, i) ==
    IF i > Len(items) THEN <<>>
    ELSE <<",">> \o T_fmt(ty, items[i]) \o CSN_fmt_rest(ty, items, i + 1)

\* CSN_fmt, were every element written as "{},"
RECURSIVE CSN_fmt_trailing(_, _)
CSN_fmt_trailing(ty, items) ==
    IF Len(items) = 0 THEN <<>>
    ELSE T_fmt(ty, Head(items)) \o <<",">> \o CSN_fmt_trailing(ty, Tail(items))

CSN_fmt(ty, items) ==
    IF Len(items) = 0 THEN <<>>
    ELSE T_fmt(ty, items[1]) \o CSN_fmt_rest(ty, items, 2)

\* impl Serialize for CS<T, N>
CSN_serialize(ty, items) == serialize_str(CSN_fmt(ty, items))

\* CsVisitor::expecting (array.rs)
CSN_expecting == "comma separeted list"

\* CsVisitor::visit_str (array.rs)
CSN_visit_str(ty, n, s) ==
    LET r == CSN_from_str(ty, n, s)
    IN  IF r.ok THEN Out(Arr(ty, r.items), r.calls) ELSE Out(custom(ty, r.err), r.calls)

\* CSN_visit, were visit_seq overridden too, taking the elements of a sequence
CSN_visit_takes_seq(ty, n, w) ==
    IF w.prim = "str" THEN CSN_visit_str(ty, n, w.text)
    ELSE IF w.prim = "seq"
    THEN Out(Arr(ty, [i \in 1..n |-> IF i <= Len(w.items) THEN w.items[i] ELSE T_default(ty)]),
             <<>>)
    ELSE Out(invalid_type(ty, w.prim, CSN_expecting), <<>>)

\* CsVisitor (array.rs): visit_str is the only method it overrides
CSN_visit(ty, n, w) ==
    IF w.prim = "str" THEN CSN_visit_str(ty, n, w.text)
    ELSE Out(invalid_type(ty, w.prim, CSN_expecting), <<>>)

\* impl Deserialize for CS<T, N>
CSN_deserialize(ty, n, w) == CSN_visit(ty, n, w)

---------------------------------------------------------------------------
(* Inputs *)

\* further inputs: those of the crate's tests that the enumeration does not reach,
\* and three tokens of which the last is malformed
SampleTexts ==
    { <<"1", ",", "2", ",", "3", ",", "4", ",", "5">>,
      <<"1", ",", "0", ",", "a">>,
      <<",", ",", ",", "1", ",", ",", ",", ",", ",", "2", ",", ",", ",", ",", ",">>,
      <<"-", "1">>,
      <<"+", "1">>,
      <<"4", "2", "9", "4", "9", "6", "7", "2", "9", "6">> }

Texts == BoundedSeq(Chars, MaxLen) \cup SampleTexts

U32Seqs == BoundedSeq(0..MaxElem, MaxVecLen) \cup {<<1, 2, 3, 4, 5>>}

ElemStrs == {<<>>, <<"a">>, <<"1">>, <<",">>, <<"a", ",", "1">>}

StringSeqs == BoundedSeq(ElemStrs, MaxVecLen)

\* what a deserializer can present besides a string
OtherPrims == {"seq", "u64", "bool", "map", "unit"}

---------------------------------------------------------------------------
(* The caller *)

Call(op, ty, n) == Append(hist, [op |-> op, ty |-> ty, n |-> n, arg |-> val])

Init ==
    /\ \/ \E s \in Texts : val = Str(s)
       \/ \E v \in U32Seqs : val = Vec("u32", v)
       \/ \E v \in StringSeqs : val = Vec("String", v)
       \/ \E v \in U32Seqs : val = Arr("u32", v)
       \/ \E v \in StringSeqs : val = Arr("String", v)
       \/ \E s \in Texts : val = Wire("str", s, <<>>)
       \/ \E p \in OtherPrims : val = Wire(p, <<>>, IF p = "seq" THEN <<1, 2, 3>> ELSE <<>>)
    /\ hist = <<>>
    /\ calls = <<>>

\* s.parse::<CS<T>>()
FromStrVec ==
    \E ty \in Types :
        /\ Len(hist) < MaxSteps
        /\ val.kind = "str"
        /\ LET r == CS_from_str(ty, val.text)
           IN  /\ val' = (IF r.ok THEN Vec(ty, r.items) ELSE ParseErr(ty, r.err))
               /\ calls' = r.calls
        /\ hist' = Call("from_str", ty, 0)

\* s.parse::<CS<T, N>>()
FromStrArr ==
    \E ty \in CopyTypes, n \in 0..MaxN :
        /\ Len(hist) < MaxSteps
        /\ val.kind = "str"
        /\ LET r == CSN_from_str(ty, n, val.text)
           IN  /\ val' = (IF r.ok THEN Arr(ty, r.items) ELSE ParseErr(ty, r.err))
               /\ calls' = r.calls
        /\ hist' = Call("from_str_n", ty, n)

\* CS<T>::to_string()
ToStringVec ==
    /\ Len(hist) < MaxSteps
    /\ val.kind = "vec"
    /\ val' = Str(CS_fmt(val.ty, val.items))
    /\ calls' = <<>>
    /\ hist' = Call("to_string", val.ty, 0)

\* CS<T, N>::to_string()
ToStringArr ==
    /\ Len(hist) < MaxSteps
    /\ val.kind = "arr"
    /\ val' = Str(CSN_fmt(val.ty, val.items))
    /\ calls' = <<>>
    /\ hist' = Call("to_string_n", val.ty, Len(val.items))

\* CS<T>::serialize(serializer)
SerializeVec ==
    /\ Len(hist) < MaxSteps
    /\ val.kind = "vec"
    /\ val' = CS_serialize(val.ty, val.items)
    /\ calls' = <<>>
    /\ hist' = Call("serialize", val.ty, 0)

\* CS<T, N>::serialize(serializer)
SerializeArr ==
    /\ Len(hist) < MaxSteps
    /\ val.kind = "arr"
    /\ val' = CSN_serialize(val.ty, val.items)
    /\ calls' = <<>>
    /\ hist' = Call("serialize_n", val.ty, Len(val.items))

\* CS<T>::deserialize(deserializer)
DeserializeVec ==
    \E ty \in Types :
        /\ Len(hist) < MaxSteps
        /\ val.kind = "wire"
        /\ LET o == CS_deserialize(ty, val)
           IN  /\ val' = o.val
               /\ calls' = o.calls
        /\ hist' = Call("deserialize", ty, 0)

\* CS<T, N>::deserialize(deserializer)
DeserializeArr ==
    \E ty \in CopyTypes, n \in 0..MaxN :
        /\ Len(hist) < MaxSteps
        /\ val.kind = "wire"
        /\ LET o == CSN_deserialize(ty, n, val)
           IN  /\ val' = o.val
               /\ calls' = o.calls
        /\ hist' = Call("deserialize_n", ty, n)

Next ==
    \/ FromStrVec
    \/ FromStrArr
    \/ ToStringVec
    \/ ToStringArr
    \/ SerializeVec
    \/ SerializeArr
    \/ DeserializeVec
    \/ DeserializeArr

Spec == Init /\ [][Next]_vars

---------------------------------------------------------------------------
(* What the properties speak of *)

NCalls == Len(hist)

\* the last call made, and what it consumed
Last == hist[NCalls]

LastOp(ops) == NCalls > 0 /\ Last.op \in ops

\* the call before the last one (NCalls > 1), and the one before that (NCalls > 2)
Prev == hist[NCalls - 1]

Prev2 == hist[NCalls - 2]

NoComma(r) == \A i \in 1..Len(r) : r[i] # ","

OnlyCommas(s) == \A i \in 1..Len(s) : s[i] = ","

\* The non-empty comma-delimited tokens of s, stated by position: a token is a
\* maximal comma-free run of characters
TokenStarts(s) == {i \in 1..Len(s) : s[i] # "," /\ (i = 1 \/ s[i - 1] = ",")}

TokenEnd(s, i) ==
    CHOOSE j \in i..Len(s) :
        /\ \A k \in i..j : s[k] # ","
        /\ j = Len(s) \/ s[j + 1] = ","

NthStart(s, k) ==
    CHOOSE i \in TokenStarts(s) : Cardinality({j \in TokenStarts(s) : j < i}) = k - 1

NonEmptyTokens(s) ==
    [k \in 1..Cardinality(TokenStarts(s)) |->
        SubSeq(s, NthStart(s, k), TokenEnd(s, NthStart(s, k)))]

Parseable(ty, tok) == T_from_str(ty, tok).ok

Parsed(ty, tok) == T_from_str(ty, tok).val

\* The renderings of items joined by single commas, stated by position: rendering k
\* sits at offset Off(k), preceded (k > 1) by one comma
RECURSIVE Off(_, _, _)
Off(ty, items, k) ==
    IF k = 1 THEN 0 ELSE Off(ty, items, k - 1) + Len(T_fmt(ty, items[k - 1])) + 1

IsJoin(ty, items, out) ==
    IF Len(items) = 0 THEN out = <<>>
    ELSE /\ Len(out) = Off(ty, items, Len(items)) + Len(T_fmt(ty, items[Len(items)]))
         /\ \A k \in 1..Len(items) :
              LET o == Off(ty, items, k)
                  r == T_fmt(ty, items[k])
              IN  /\ k > 1 => out[o] = ","
                  /\ \A i \in 1..Len(r) : out[o + i] = r[i]

---------------------------------------------------------------------------
(* C1 *)

\* C1: parsing a text into the dynamic wrapper, when every non-empty token is
\* parseable by T, succeeds with exactly the parsed values of the non-empty tokens,
\* in order, duplicates kept; a text of commas only (or the empty text) gives the
\* zero-length sequence.
C1_ParseDynamic ==
    LastOp({"from_str"}) =>
        LET ty == Last.ty
            s == Last.arg.text
            toks == NonEmptyTokens(s)
        IN  /\ (\A k \in 1..Len(toks) : Parseable(ty, toks[k])) =>
                  /\ val.kind = "vec"
                  /\ val.ty = ty
                  /\ val.items = [k \in 1..Len(toks) |-> Parsed(ty, toks[k])]
            /\ OnlyCommas(s) => val = Vec(ty, <<>>)

\* ",1,1" parsed as CS<u32>: the leading comma gives no element, the repeated 1 is kept
C1_Witness ==
    /\ LastOp({"from_str"})
    /\ Last.ty = "u32"
    /\ Last.arg.text = <<",", "1", ",", "1">>
    /\ val = Vec("u32", <<1, 1>>)

---------------------------------------------------------------------------
(* C2 *)

\* the last call parsed, into the same wrapper type, what the call before it formatted
ParsedBack ==
    /\ NCalls > 1
    /\ \/ Prev.op = "to_string" /\ Last.op = "from_str"
       \/ Prev.op = "to_string_n" /\ Last.op = "from_str_n" /\ Last.n = Prev.n
    /\ Last.ty = Prev.ty

\* the last call formatted what the call before it parsed from a formatted wrapper
FormattedBack ==
    /\ NCalls > 2
    /\ \/ Prev2.op = "to_string" /\ Prev.op = "from_str" /\ Last.op = "to_string"
       \/ /\ Prev2.op = "to_string_n" /\ Prev.op = "from_str_n" /\ Last.op = "to_string_n"
          /\ Prev.n = Prev2.n
    /\ Prev.ty = Prev2.ty

CommaFree(w) == \A k \in 1..Len(w.items) : NoComma(T_fmt(w.ty, w.items[k]))

NonEmptyRenderings(w) == \A k \in 1..Len(w.items) : Len(T_fmt(w.ty, w.items[k])) > 0

\* C2 as stated: for v whose renderings hold no comma, format(parse(format(v))) =
\* format(v) for both wrappers, and for the dynamic one parse(format(v)) is v.
C2_RoundTrip_AsStated ==
    /\ (ParsedBack /\ Last.op = "from_str" /\ CommaFree(Prev.arg)) =>
          (val.kind = "vec" /\ into_inner(val) = Prev.arg.items)
    /\ (FormattedBack /\ CommaFree(Prev2.arg)) => val.text = Prev.arg.text

\* C2 amended: for v whose renderings are non-empty and hold no comma,
\* format(parse(format(v))) = format(v) for both wrappers, and for the dynamic one
\* parse(format(v)) is v: same length, same elements, same order.
C2_RoundTrip ==
    /\ (ParsedBack /\ Last.op = "from_str" /\ CommaFree(Prev.arg)
            /\ NonEmptyRenderings(Prev.arg)) =>
          (val.kind = "vec" /\ val.ty = Prev.ty /\ into_inner(val) = Prev.arg.items)
    /\ (FormattedBack /\ CommaFree(Prev2.arg) /\ NonEmptyRenderings(Prev2.arg)) =>
          (val.kind = "str" /\ val.text = Prev.arg.text)

\* CS<u32>([10, 0]) formatted, parsed and formatted again
C2_Witness ==
    /\ FormattedBack
    /\ Last.op = "to_string"
    /\ Prev2.arg = Vec("u32", <<10, 0>>)
    /\ Last.arg = Vec("u32", <<10, 0>>)
    /\ val = Str(<<"1", "0", ",", "0">>)

---------------------------------------------------------------------------
(* C3 *)

\* some non-empty token among the first n of s is rejected by T
RejectsWithin(ty, s, n) ==
    LET toks == NonEmptyTokens(s)
    IN  \E k \in 1..Len(toks) : k <= n /\ ~Parseable(ty, toks[k])

\* C3 as stated: for both wrappers, a text with a non-empty token that T rejects,
\* at whatever position, fails to parse.
C3_Failure_AsStated ==
    LastOp({"from_str", "from_str_n"}) =>
        (RejectsWithin(Last.ty, Last.arg.text, Len(Last.arg.text)) => val.kind = "parse_err")

\* C3 amended: a text with a non-empty token that T rejects fails to parse into the
\* dynamic wrapper at whatever position the token is, and fails to parse into the
\* N-slot wrapper when the token is among the first N non-empty tokens.
C3_Failure ==
    /\ LastOp({"from_str"}) =>
          (RejectsWithin(Last.ty, Last.arg.text, Len(Last.arg.text)) =>
              val.kind = "parse_err")
    /\ LastOp({"from_str_n"}) =>
          (RejectsWithin(Last.ty, Last.arg.text, Last.n) => val.kind = "parse_err")

\* "1,a" parsed as CS<u32, 2>: the second of two slots meets the rejected token
C3_Witness ==
    /\ LastOp({"from_str_n"})
    /\ Last.n = 2
    /\ Last.arg.text = <<"1", ",", "a">>
    /\ val = ParseErr("u32", "InvalidDigit")

---------------------------------------------------------------------------
(* C4 *)

\* C4: parsing a text with more than N non-empty tokens, the first N parseable, into
\* the N-slot wrapper succeeds with exactly the first N parsed values; the other
\* tokens are never handed to T's parser, malformed or not; with N = 0 every text
\* parses.
C4_Truncation ==
    LastOp({"from_str_n"}) =>
        LET ty == Last.ty
            n == Last.n
            toks == NonEmptyTokens(Last.arg.text)
        IN  /\ (Len(toks) > n /\ \A k \in 1..n : Parseable(ty, toks[k])) =>
                  /\ val = Arr(ty, [k \in 1..n |-> Parsed(ty, toks[k])])
                  /\ calls = SubSeq(toks, 1, n)
            /\ n = 0 => val = Arr(ty, <<>>) /\ calls = <<>>

\* "1,0,a" parsed as CS<u32, 2>: the malformed third token is not looked at
C4_Witness ==
    /\ LastOp({"from_str_n"})
    /\ Last.n = 2
    /\ Last.arg.text = <<"1", ",", "0", ",", "a">>
    /\ val = Arr("u32", <<1, 0>>)
    /\ calls = <<<<"1">>, <<"0">>>>

---------------------------------------------------------------------------
(* C5 *)

\* C5: parsing a text with k < N non-empty tokens, all parseable, into the N-slot
\* wrapper succeeds with the k parsed values in slots 0..k-1 and T's default in the
\* other N-k; a text of commas only gives N defaults; a parsed wrapper has length N.
C5_Fill ==
    LastOp({"from_str_n"}) =>
        LET ty == Last.ty
            n == Last.n
            s == Last.arg.text
            toks == NonEmptyTokens(s)
        IN  /\ (Len(toks) < n /\ \A k \in 1..Len(toks) : Parseable(ty, toks[k])) =>
                  val = Arr(ty, [k \in 1..n |->
                            IF k <= Len(toks) THEN Parsed(ty, toks[k]) ELSE T_default(ty)])
            /\ OnlyCommas(s) => val = Arr(ty, [k \in 1..n |-> T_default(ty)])
            /\ val.kind = "arr" => Len(val.items) = n

\* "1," parsed as CS<u32, 2>: the second slot keeps the default
C5_Witness ==
    /\ LastOp({"from_str_n"})
    /\ Last.n = 2
    /\ Last.arg.text = <<"1", ",">>
    /\ val = Arr("u32", <<1, 0>>)

---------------------------------------------------------------------------
(* C6 *)

FormatOps == {"to_string", "to_string_n"}

LeadingComma(s) == Len(s) > 0 /\ s[1] = ","

TrailingComma(s) == Len(s) > 0 /\ s[Len(s)] = ","

\* C6 as stated: the output is the renderings in order joined by one comma, the
\* empty sequence gives the empty text, and no leading or trailing comma is ever
\* emitted, whatever the elements.
C6_Format_AsStated ==
    LastOp(FormatOps) =>
        /\ IsJoin(Last.ty, Last.arg.items, val.text)
        /\ ~LeadingComma(val.text)
        /\ ~TrailingComma(val.text)

\* C6 amended: the output is the renderings in order joined by one comma, the empty
\* sequence gives the empty text, and the output begins (ends) with a comma only
\* when there are two or more elements and the first (last) rendering is empty, or
\* when the first (last) rendering itself begins (ends) with a comma.
C6_Format ==
    LastOp(FormatOps) =>
        LET ty == Last.ty
            items == Last.arg.items
            first == T_fmt(ty, items[1])
            last == T_fmt(ty, items[Len(items)])
        IN  /\ val.kind = "str"
            /\ IsJoin(ty, items, val.text)
            /\ Len(items) = 0 => val.text = <<>>
            /\ LeadingComma(val.text) =>
                  \/ Len(items) > 1 /\ first = <<>>
                  \/ LeadingComma(first)
            /\ TrailingComma(val.text) =>
                  \/ Len(items) > 1 /\ last = <<>>
                  \/ TrailingComma(last)

\* CS<u32>([10, 0]) and CS<u32, 2>([10, 0]) format to "10,0"
C6_Witness ==
    /\ LastOp(FormatOps)
    /\ Last.arg.ty = "u32"
    /\ Last.arg.items = <<10, 0>>
    /\ val = Str(<<"1", "0", ",", "0">>)

---------------------------------------------------------------------------
(* C7 *)

SerializeOps == {"serialize", "serialize_n"}

\* C7: serializing a wrapper, dynamic or fixed, never fails and emits one string
\* primitive holding the wrapper's format-to-text output, never a sequence, whatever
\* the number of elements.
C7_SerializeShape ==
    LastOp(SerializeOps) =>
        /\ val.kind = "wire"
        /\ val.prim = "str"
        /\ val.items = <<>>
        /\ IsJoin(Last.ty, Last.arg.items, val.text)
        /\ val.text = (IF Last.op = "serialize" THEN CS_fmt(Last.ty, Last.arg.items)
                       ELSE CSN_fmt(Last.ty, Last.arg.items))

\* the empty CS<u32> serializes to the string ""
C7_Witness ==
    /\ LastOp({"serialize"})
    /\ Last.arg = Vec("u32", <<>>)
    /\ val = Wire("str", <<>>, <<>>)

---------------------------------------------------------------------------
(* C8 *)

DeserializeOps == {"deserialize", "deserialize_n"}

\* C8: deserializing a primitive that is not a string into either wrapper fails with
\* the framework's type-mismatch error; T's parser is never invoked.
C8_ShapeRejection ==
    LastOp(DeserializeOps) =>
        (Last.arg.prim # "str" =>
            /\ val.kind = "de_err"
            /\ val.err = "invalid_type"
            /\ val.prim = Last.arg.prim
            /\ calls = <<>>)

\* the sequence [1, 2, 3] presented to CS<u32>
C8_Witness ==
    /\ LastOp({"deserialize"})
    /\ Last.ty = "u32"
    /\ Last.arg = Wire("seq", <<>>, <<1, 2, 3>>)
    /\ val.kind = "de_err"

---------------------------------------------------------------------------
(* C9 *)

\* C9: deserializing a string primitive s succeeds exactly when parsing s does, with
\* the same wrapper value; when parsing fails it fails with the framework's custom
\* error carrying the text of the element's parse error.
C9_DeserializeString ==
    LastOp(DeserializeOps) =>
        (Last.arg.prim = "str" =>
            LET ty == Last.ty
                r == IF Last.op = "deserialize" THEN CS_from_str(ty, Last.arg.text)
                     ELSE CSN_from_str(ty, Last.n, Last.arg.text)
            IN  IF r.ok
                THEN /\ val.kind = (IF Last.op = "deserialize" THEN "vec" ELSE "arr")
                     /\ val.ty = ty
                     /\ val.items = r.items
                ELSE /\ val.kind = "de_err"
                     /\ val.err = "custom"
                     /\ val.msg = T_Err_fmt(r.err)
                     /\ val.items = <<>>)

\* the string "1,a" presented to CS<u32, 2>
C9_Witness ==
    /\ LastOp({"deserialize_n"})
    /\ Last.n = 2
    /\ Last.arg = Wire("str", <<"1", ",", "a">>, <<>>)
    /\ val = DeErr("u32", "str", "custom", "invalid digit found in string")

---------------------------------------------------------------------------
(* C10 *)

\* C10: when a primitive that is not a string is presented, the "expected" phrase
\* the visitor supplies is the text "comma separated list".
C10_ExpectedPhrase ==
    LastOp(DeserializeOps) =>
        (Last.arg.prim # "str" => val.msg = "comma separated list")

====
